---- MODULE Spec2Model ----
(***************************************************************************)
(* The six Minimax relay handlers (chat, blueprint, vision, audio, image,  *)
(* video) as one state machine.  One behaviour is one invocation of one    *)
(* handler: the request is fixed in the initial state, every await of the  *)
(* handler is a step boundary, and the upstream provider's answer to each  *)
(* outbound call is drawn from a small set when the call returns.          *)
(***************************************************************************)
EXTENDS Integers, Sequences, FiniteSets, TLC

VARIABLES
    endpoint,   \* which handler serves the invocation
    req,        \* the inbound request
    pc,         \* the await the handler is suspended at
    taskId,     \* const taskId (job runners)
    fileId,     \* let fileId
    attempts,   \* let attempts
    calls,      \* outbound fetch calls issued so far
    polls,      \* status polls issued so far
    delays,     \* setTimeout delays started so far
    response,   \* the HTTP responses returned (at most one)
    escaped,    \* an exception left the handler
    lastUp,     \* the provider's answer to the latest outbound call that returned
    answered,   \* status polls the provider has answered so far
    sawPending, \* some poll so far parsed and left the job pending
    sawMalformed, \* some poll so far had a body that is not JSON
    client,     \* a generateStructuredJSON call of the client helper
    runs        \* the concurrent job-runner invocations, each with its own locals

vars == << endpoint, req, pc, taskId, fileId, attempts, calls, polls, delays,
           response, escaped, lastUp, answered, sawPending, sawMalformed,
           client, runs >>

----------------------------------------------------------------------------
(* JavaScript values.  An optional value (a property that may be undefined) *)
(* is a sequence of length 0 or 1.                                          *)

None == << >>

Some(x) == << x >>

\* truthiness of an optional string: undefined and '' are falsy
TruthyStr(o) == o # None /\ o[1] # ""

\* truthiness of an optional number: undefined and 0 are falsy
TruthyNum(o) == o # None /\ o[1] # 0

Endpoints == {"chat", "blueprint", "vision", "audio", "image", "video"}

JobEndpoints == {"image", "video"}

ChatEndpoints == {"chat", "blueprint", "vision"}

----------------------------------------------------------------------------
(* The fixed provider error tables, one per endpoint.                       *)

AuthMsg == "Authentication failed. Please check your API key."

BalanceMsg == "Insufficient balance. Please add funds to your Minimax account at https://platform.minimax.io/user-center/payment/balance"

RateMsg == "Rate limited. Please wait a moment and try again."

CommonTable == (1004 :> AuthMsg) @@ (1008 :> BalanceMsg) @@ (1002 :> RateMsg)

ERROR_MESSAGES(e) ==
    CASE e = "chat"      -> CommonTable @@ (1039 :> "Token limit exceeded. Please try a shorter message.")
      [] e = "blueprint" -> CommonTable @@ (1039 :> "Token limit exceeded. Please try a shorter prompt.")
      [] e = "vision"    -> CommonTable @@ (1039 :> "Token limit exceeded. Please try a shorter prompt.")
      [] e = "audio"     -> CommonTable @@ (1013 :> "Invalid parameters. Please check your audio generation request.")
      [] e = "image"     -> CommonTable @@ (1013 :> "Invalid parameters. Please check your image generation request.")
      [] e = "video"     -> CommonTable @@ (1013 :> "Invalid parameters. Please check your video generation request.")

\* const maxAttempts = 30 (image handler)
maxAttemptsImage == 30

\* const maxAttempts = 60 (video handler)
maxAttemptsVideo == 60

\* maxAttempts with the video handler's constant in both handlers
maxAttemptsVideoInBoth(e) == maxAttemptsVideo

maxAttempts(e) == IF e = "image" THEN maxAttemptsImage ELSE maxAttemptsVideo

----------------------------------------------------------------------------
(* HTTP responses of the handlers.  A body is a record holding exactly the  *)
(* fields JSON.stringify writes (an undefined property is left out).        *)

Resp(status, body) == [status |-> status, body |-> body]

ErrBody(error, message) == [error |-> error, message |-> message]

ErrDetails(error, message, details) ==
    [error |-> error, message |-> message, details |-> details]

\* new Response(null, { status: 200, headers: corsHeaders })
OptionsResponse == Resp(200, << >>)

\* what a try block ends with: a returned response, a thrown error, or (job
\* runners after the submit) the entry into the poll loop
Returned(r) == [t |-> "return", r |-> r]

Thrown(msg) == [t |-> "throw", msg |-> msg]

Continue(x) == [t |-> "continue", x |-> x]

----------------------------------------------------------------------------
(* Inbound requests.  A request is OPTIONS, or a POST whose body is not     *)
(* JSON, is the JSON value null, or is a JSON object holding any subset of  *)
(* the endpoint's fields, each absent, empty or non-empty.                  *)

PayloadFields(e) ==
    CASE e = "chat"      -> {"messages"}
      [] e = "blueprint" -> {"imageBase64", "objectName", "mode"}
      [] e = "vision"    -> {"imageBase64"}
      [] e = "audio"     -> {"text"}
      [] e = "image"     -> {"prompt"}
      [] e = "video"     -> {"prompt"}

FieldValues == {None, Some(""), Some("v")}

Requests(e) ==
    {[method |-> "OPTIONS", json |-> "none", apiKey |-> None,
      f |-> [x \in PayloadFields(e) |-> None]]}
    \cup
    {[method |-> "POST", json |-> j, apiKey |-> None,
      f |-> [x \in PayloadFields(e) |-> None]] : j \in {"malformed", "null"}}
    \cup
    {[method |-> "POST", json |-> "object", apiKey |-> k, f |-> f] :
        k \in FieldValues, f \in [PayloadFields(e) -> FieldValues]}

----------------------------------------------------------------------------
(* What the provider can answer to an outbound call: the fetch rejects, or  *)
(* it resolves with an HTTP status and a body.  A body is described by what *)
(* JSON.parse makes of its text: a SyntaxError, null, a scalar, or an       *)
(* object with the properties the handlers read.                            *)

KnownCodes == {1002, 1004, 1008, 1013, 1039}

\* 2013 stands for any code that no table holds
Codes == KnownCodes \cup {2013}

StatusMsgs == {None, Some(""), Some("provider text")}

BaseResps ==
    {None,
     Some([status_code |-> None, status_msg |-> None]),
     Some([status_code |-> Some(0), status_msg |-> Some("success")])}
    \cup
    {Some([status_code |-> Some(c), status_msg |-> m]) : c \in Codes, m \in StatusMsgs}

Malformed == [json |-> "malformed"]

JNull == [json |-> "null"]

JScalar == [json |-> "scalar"]

HttpStatuses == {200, 401, 503}

Ok(status) == status >= 200 /\ status <= 299

FetchThrows == [kind |-> "throw"]

Http(status, body) == [kind |-> "http", status |-> status, body |-> body]

Usages == {None, Some([total_tokens |-> 5])}

\* minimaxData.choices?.[0]?.message?.content: absent, a string, or a number
Contents ==
    {None, Some([isString |-> FALSE, text |-> "7"])}
    \cup
    {Some([isString |-> TRUE, text |-> t]) :
        t \in {"", "hello", "null", "7", "{}", "{\"objects\":[]}",
               "{\"objects\":[\"fan\"]}", "{\"title\":\"T\"}"}}

ChatBodies ==
    {Malformed, JNull, JScalar}
    \cup
    [json : {"object"}, base_resp : BaseResps, content : Contents, usage : Usages]

AudioBodies ==
    {Malformed, JNull, JScalar}
    \cup
    [json : {"object"}, base_resp : BaseResps,
     audio : {None, Some(""), Some("QUJD")}, usage : Usages]

TaskBodies ==
    {Malformed, JNull, JScalar}
    \cup
    [json : {"object"}, base_resp : BaseResps, task_id : {None, Some(""), Some("t1")}]

\* a status body that parses to an object
StatusObj(base, status, file) ==
    [json |-> "object", base_resp |-> base, status |-> status, file_id |-> file]

NoCodeBases == {b \in BaseResps : b = None \/ ~TruthyNum(b[1].status_code)}

ErrorBases == BaseResps \ NoCodeBases

StatusBodies ==
    {Malformed, JNull, JScalar}
    \cup
    {StatusObj(b, s, f) :
        b \in NoCodeBases,
        s \in {None, Some("Processing"), Some("Success"), Some("Failed"), Some("success")},
        f \in {None, Some(""), Some("f1"), Some("f2")}}
    \cup
    {StatusObj(b, sf[1], sf[2]) :
        b \in ErrorBases,
        sf \in {<<None, None>>, <<Some("Processing"), None>>,
                <<Some("Success"), Some("f1")>>, <<Some("Failed"), None>>}}

FirstBodies(e) ==
    CASE e \in ChatEndpoints -> ChatBodies
      [] e = "audio"         -> AudioBodies
      [] e \in JobEndpoints  -> TaskBodies

FirstAnswers(e) ==
    {FetchThrows} \cup {Http(s, b) : s \in HttpStatuses, b \in FirstBodies(e)}

\* the status poll's HTTP status is never read: 503 is paired with one body of
\* each kind
PollAnswers ==
    {FetchThrows}
    \cup {Http(200, b) : b \in StatusBodies}
    \cup {Http(503, b) : b \in {Malformed, JNull,
                                 StatusObj(None, Some("Processing"), None),
                                 StatusObj(None, Some("Success"), Some("f2")),
                                 StatusObj(None, Some("Failed"), None),
                                 StatusObj(Some([status_code |-> Some(1004), status_msg |-> None]),
                                           None, None)}}

\* property access on a parsed value: undefined on a scalar or a missing key
Prop(v, k) == IF v.json = "object" /\ k \in DOMAIN v THEN v[k] ELSE None

\* v.base_resp?.status_code
StatusCode(v) ==
    IF Prop(v, "base_resp") = None THEN None ELSE Prop(v, "base_resp")[1].status_code

----------------------------------------------------------------------------
(* Provider error normalization, the same expression in every handler.      *)

\* ErrorMessage with the operands swapped: status_msg || ERROR_MESSAGES[code]
ErrorMessageProviderFirst(e, base) ==
    IF TruthyStr(base.status_msg) THEN base.status_msg[1]
    ELSE IF base.status_code[1] \in DOMAIN ERROR_MESSAGES(e)
    THEN ERROR_MESSAGES(e)[base.status_code[1]]
    ELSE "Unknown error"

\* ErrorMessage without the middle operand: ERROR_MESSAGES[code] || 'Unknown error'
ErrorMessageTableOnly(e, base) ==
    IF base.status_code[1] \in DOMAIN ERROR_MESSAGES(e)
    THEN ERROR_MESSAGES(e)[base.status_code[1]]
    ELSE "Unknown error"

\* ERROR_MESSAGES[errorCode] || base_resp.status_msg || 'Unknown error'
ErrorMessage(e, base) ==
    IF base.status_code[1] \in DOMAIN ERROR_MESSAGES(e)
    THEN ERROR_MESSAGES(e)[base.status_code[1]]
    ELSE IF TruthyStr(base.status_msg) THEN base.status_msg[1] ELSE "Unknown error"

\* HasProviderError that also requires a status_msg
HasProviderErrorNeedsMsg(v) ==
    TruthyNum(StatusCode(v)) /\ TruthyStr(Prop(v, "base_resp")[1].status_msg)

\* base_resp?.status_code && base_resp.status_code !== 0
HasProviderError(v) == TruthyNum(StatusCode(v))

ProviderError(e, v) ==
    Resp(500, ErrBody("Error " \o ToString(StatusCode(v)[1]),
                      ErrorMessage(e, Prop(v, "base_resp")[1])))

----------------------------------------------------------------------------
(* The start of every handler: req.json(), then the field checks.           *)

MissingFieldResponse(e) ==
    CASE e = "blueprint" -> Resp(400, ErrBody("Missing required fields", "Image, object name, and mode are required."))
      [] e = "vision"    -> Resp(400, ErrBody("Missing image data", "Image base64 data is required."))
      [] e = "audio"     -> Resp(400, ErrBody("Missing text", "Text content is required for audio generation."))
      [] e = "image"     -> Resp(400, ErrBody("Missing prompt", "Image generation prompt is required."))
      [] e = "video"     -> Resp(400, ErrBody("Missing prompt", "Video prompt is required."))

\* the fields a handler tests after the credential; the chat handler tests none
CheckedFields(e) == IF e = "chat" THEN {} ELSE PayloadFields(e)

Validate(e, r) ==
    IF r.json = "malformed" THEN Thrown("Unexpected token in JSON")
    ELSE IF r.json = "null" THEN Thrown("Cannot destructure property of null")
    ELSE IF ~TruthyStr(r.apiKey)
    THEN Returned(Resp(400, ErrBody("API key not provided",
                       "Please set your VITE_MINIMAX_API_KEY environment variable.")))
    ELSE IF \E x \in CheckedFields(e) : ~TruthyStr(r.f[x])
    THEN Returned(MissingFieldResponse(e))
    ELSE Continue("fetch")

CatchMessage(e) ==
    CASE e = "chat"      -> "An unexpected error occurred. Please try again."
      [] e = "blueprint" -> "An unexpected error occurred during blueprint generation."
      [] e = "vision"    -> "An unexpected error occurred during object detection."
      [] e = "audio"     -> "An unexpected error occurred during audio generation."
      [] e = "image"     -> "An unexpected error occurred during image generation."
      [] e = "video"     -> "An unexpected error occurred during video generation."

\* Catch without the catch clause: the error propagates
CatchRethrows(e, o) == o

\* the outermost catch of a handler
Catch(e, o) ==
    IF o.t = "throw" THEN Returned(Resp(500, ErrBody(o.msg, CatchMessage(e)))) ELSE o

----------------------------------------------------------------------------
(* The synchronous relays: what follows the single outbound call.           *)

\* WithUsage that leaves the usage out
WithUsageDropped(key, value, usage) == [x \in {key} |-> value]

\* JSON.stringify({ <key>: value, usage: data.usage })
WithUsage(key, value, usage) ==
    IF usage = None THEN [x \in {key} |-> value]
    ELSE (key :> value) @@ ("usage" :> usage[1])

TruthyContent(c) == c # None /\ (c[1].isString => c[1].text # "")

\* JSON.parse of the assistant's text
JSONParse(t) ==
    CASE t = "null"                      -> [ok |-> TRUE, v |-> JNull]
      [] t = "7"                         -> [ok |-> TRUE, v |-> JScalar]
      [] t = "{}"                        -> [ok |-> TRUE, v |-> [json |-> "object"]]
      [] t = "{\"objects\":[]}"          -> [ok |-> TRUE, v |-> [json |-> "object", objects |-> Some(<< >>)]]
      [] t = "{\"objects\":[\"fan\"]}"   -> [ok |-> TRUE, v |-> [json |-> "object", objects |-> Some(<<"fan">>)]]
      [] t = "{\"title\":\"T\"}"         -> [ok |-> TRUE, v |-> [json |-> "object", title |-> Some("T")]]
      [] OTHER                           -> [ok |-> FALSE, v |-> Malformed]

ChatAfterFetch(up) ==
    IF up.kind = "throw" THEN Thrown("fetch failed")
    ELSE IF ~Ok(up.status)
    THEN Returned(Resp(500, ErrBody("API error: " \o ToString(up.status),
                  "Minimax API returned error " \o ToString(up.status) \o ".")))
    ELSE IF up.body.json = "malformed"
    THEN Returned(Resp(500, ErrBody("Invalid response", "The API returned an invalid response.")))
    ELSE IF up.body.json = "null" THEN Thrown("Cannot read properties of null")
    ELSE IF HasProviderError(up.body) THEN Returned(ProviderError("chat", up.body))
    ELSE IF ~TruthyContent(Prop(up.body, "content"))
    THEN Returned(Resp(500, ErrBody("No response",
                  "The AI did not generate a response. Please try again.")))
    ELSE Returned(Resp(200, WithUsage("message", Prop(up.body, "content")[1],
                                      Prop(up.body, "usage"))))

\* BlueprintAfterFetch with the body parsed and examined before the
\* response.ok test
BlueprintParseBeforeOk(up) ==
    IF up.kind = "throw" THEN Thrown("fetch failed")
    ELSE IF up.body.json = "malformed"
    THEN Returned(Resp(500, ErrDetails("Invalid response",
                  "The API returned an invalid response.", up.body)))
    ELSE IF up.body.json = "null" THEN Thrown("Cannot read properties of null")
    ELSE IF HasProviderError(up.body) THEN Returned(ProviderError("blueprint", up.body))
    ELSE IF ~Ok(up.status)
    THEN Returned(Resp(500, ErrDetails("API error: " \o ToString(up.status),
                  "Minimax API returned error " \o ToString(up.status) \o ".", up.body)))
    ELSE IF ~TruthyContent(Prop(up.body, "content"))
    THEN Returned(Resp(500, ErrBody("No response",
                  "The AI did not generate a blueprint. Please try again.")))
    ELSE IF ~JSONParse(Prop(up.body, "content")[1].text).ok
    THEN Returned(Resp(500, ErrDetails("Invalid blueprint format",
                  "Failed to parse blueprint data.", Prop(up.body, "content")[1])))
    ELSE Returned(Resp(200, WithUsage("blueprint",
                                      JSONParse(Prop(up.body, "content")[1].text).v,
                                      Prop(up.body, "usage"))))

BlueprintAfterFetch(up) ==
    IF up.kind = "throw" THEN Thrown("fetch failed")
    ELSE IF ~Ok(up.status)
    THEN Returned(Resp(500, ErrDetails("API error: " \o ToString(up.status),
                  "Minimax API returned error " \o ToString(up.status) \o ".", up.body)))
    ELSE IF up.body.json = "malformed"
    THEN Returned(Resp(500, ErrDetails("Invalid response",
                  "The API returned an invalid response.", up.body)))
    ELSE IF up.body.json = "null" THEN Thrown("Cannot read properties of null")
    ELSE IF HasProviderError(up.body) THEN Returned(ProviderError("blueprint", up.body))
    ELSE IF ~TruthyContent(Prop(up.body, "content"))
    THEN Returned(Resp(500, ErrBody("No response",
                  "The AI did not generate a blueprint. Please try again.")))
    ELSE IF ~JSONParse(Prop(up.body, "content")[1].text).ok
    THEN Returned(Resp(500, ErrDetails("Invalid blueprint format",
                  "Failed to parse blueprint data.", Prop(up.body, "content")[1])))
    ELSE Returned(Resp(200, WithUsage("blueprint",
                                      JSONParse(Prop(up.body, "content")[1].text).v,
                                      Prop(up.body, "usage"))))

VisionAfterFetch(up) ==
    IF up.kind = "throw" THEN Thrown("fetch failed")
    ELSE IF ~Ok(up.status)
    THEN Returned(Resp(500, ErrDetails("API error: " \o ToString(up.status),
                  "Minimax API returned error " \o ToString(up.status) \o ".", up.body)))
    ELSE IF up.body.json = "malformed"
    THEN Returned(Resp(500, ErrDetails("Invalid response",
                  "The API returned an invalid response.", up.body)))
    ELSE IF up.body.json = "null" THEN Thrown("Cannot read properties of null")
    ELSE IF HasProviderError(up.body) THEN Returned(ProviderError("vision", up.body))
    \* assistantMessage?.substring(0, 300) on a value that is not a string
    ELSE IF Prop(up.body, "content") # None /\ ~Prop(up.body, "content")[1].isString
    THEN Thrown("assistantMessage?.substring is not a function")
    ELSE IF ~TruthyContent(Prop(up.body, "content"))
    THEN Returned(Resp(500, [error |-> "No response",
                             message |-> "The AI did not generate a response. Please try again.",
                             rawResponse |-> up.body]))
    ELSE IF ~JSONParse(Prop(up.body, "content")[1].text).ok
    THEN Returned(Resp(500, ErrDetails("Invalid detection format",
                  "Failed to parse object detection results.", Prop(up.body, "content")[1])))
    \* detectionResult.objects on null
    ELSE IF JSONParse(Prop(up.body, "content")[1].text).v.json = "null"
    THEN Thrown("Cannot read properties of null")
    ELSE Returned(Resp(200, WithUsage("objects",
              IF Prop(JSONParse(Prop(up.body, "content")[1].text).v, "objects") = None
              THEN << >>
              ELSE Prop(JSONParse(Prop(up.body, "content")[1].text).v, "objects")[1],
              Prop(up.body, "usage"))))

AudioAfterFetch(up) ==
    IF up.kind = "throw" THEN Thrown("fetch failed")
    ELSE IF ~Ok(up.status)
    THEN Returned(Resp(500, ErrBody("API error: " \o ToString(up.status),
                  "Failed to generate audio. Status: " \o ToString(up.status))))
    ELSE IF up.body.json = "malformed"
    THEN Returned(Resp(500, ErrBody("Invalid response", "The API returned an invalid response.")))
    ELSE IF up.body.json = "null" THEN Thrown("Cannot read properties of null")
    ELSE IF HasProviderError(up.body) THEN Returned(ProviderError("audio", up.body))
    ELSE IF ~TruthyStr(Prop(up.body, "audio"))
    THEN Returned(Resp(500, ErrBody("No audio data", "The API did not return audio data.")))
    ELSE Returned(Resp(200,
            IF Prop(up.body, "usage") = None
            THEN [audioData |-> Prop(up.body, "audio")[1],
                  audioUrl |-> "data:audio/mp3;base64," \o Prop(up.body, "audio")[1]]
            ELSE [audioData |-> Prop(up.body, "audio")[1],
                  audioUrl |-> "data:audio/mp3;base64," \o Prop(up.body, "audio")[1],
                  usage |-> Prop(up.body, "usage")[1]]))

----------------------------------------------------------------------------
(* The job runners (image, video): submit, then the poll loop.              *)

\* SubmitAfterFetch without the taskId test: the loop is entered with
\* task_id=undefined
SubmitWithoutTaskIdTest(e, up) ==
    IF up.kind = "throw" THEN Thrown("fetch failed")
    ELSE IF ~Ok(up.status)
    THEN Returned(Resp(500,
            IF e = "image"
            THEN ErrDetails("API error: " \o ToString(up.status),
                     "Failed to create image generation task. Status: " \o ToString(up.status),
                     up.body)
            ELSE ErrBody("API error: " \o ToString(up.status),
                     "Failed to create video generation task. Status: " \o ToString(up.status))))
    ELSE IF up.body.json = "malformed"
    THEN Returned(Resp(500,
            IF e = "image"
            THEN ErrDetails("Invalid response",
                     "The API returned an invalid response when creating task.", up.body)
            ELSE ErrBody("Invalid response",
                     "The API returned an invalid response when creating task.")))
    ELSE IF up.body.json = "null" THEN Thrown("Cannot read properties of null")
    ELSE IF HasProviderError(up.body) THEN Returned(ProviderError(e, up.body))
    ELSE IF Prop(up.body, "task_id") = None THEN Continue("undefined")
    ELSE Continue(Prop(up.body, "task_id")[1])

\* SubmitAfterFetch without the createTaskResponse.ok test
SubmitWithoutOkTest(e, up) ==
    IF up.kind = "throw" THEN Thrown("fetch failed")
    ELSE IF up.body.json = "malformed"
    THEN Returned(Resp(500,
            IF e = "image"
            THEN ErrDetails("Invalid response",
                     "The API returned an invalid response when creating task.", up.body)
            ELSE ErrBody("Invalid response",
                     "The API returned an invalid response when creating task.")))
    ELSE IF up.body.json = "null" THEN Thrown("Cannot read properties of null")
    ELSE IF HasProviderError(up.body) THEN Returned(ProviderError(e, up.body))
    ELSE IF ~TruthyStr(Prop(up.body, "task_id"))
    THEN Returned(Resp(500,
            IF e = "image"
            THEN ErrDetails("No task ID",
                     "Failed to get task ID from image generation request.", up.body)
            ELSE ErrBody("No task ID",
                     "Failed to get task ID from video generation request.")))
    ELSE Continue(Prop(up.body, "task_id")[1])

SubmitAfterFetch(e, up) ==
    IF up.kind = "throw" THEN Thrown("fetch failed")
    ELSE IF ~Ok(up.status)
    THEN Returned(Resp(500,
            IF e = "image"
            THEN ErrDetails("API error: " \o ToString(up.status),
                     "Failed to create image generation task. Status: " \o ToString(up.status),
                     up.body)
            ELSE ErrBody("API error: " \o ToString(up.status),
                     "Failed to create video generation task. Status: " \o ToString(up.status))))
    ELSE IF up.body.json = "malformed"
    THEN Returned(Resp(500,
            IF e = "image"
            THEN ErrDetails("Invalid response",
                     "The API returned an invalid response when creating task.", up.body)
            ELSE ErrBody("Invalid response",
                     "The API returned an invalid response when creating task.")))
    ELSE IF up.body.json = "null" THEN Thrown("Cannot read properties of null")
    ELSE IF HasProviderError(up.body) THEN Returned(ProviderError(e, up.body))
    ELSE IF ~TruthyStr(Prop(up.body, "task_id"))
    THEN Returned(Resp(500,
            IF e = "image"
            THEN ErrDetails("No task ID",
                     "Failed to get task ID from image generation request.", up.body)
            ELSE ErrBody("No task ID",
                     "Failed to get task ID from video generation request.")))
    ELSE Continue(Prop(up.body, "task_id")[1])

Break(f) == [t |-> "break", fileId |-> f]

NextAttempt(n) == [t |-> "next", attempts |-> n]

GenerationFailed(e) ==
    Resp(500, ErrBody("Generation failed",
              IF e = "image" THEN "Image generation task failed."
                             ELSE "Video generation task failed."))

\* PollStep with the success test placed before the base_resp test
PollStepSuccessBeforeError(e, up, n) ==
    IF up.kind = "throw" THEN Thrown("fetch failed")
    ELSE IF up.body.json = "malformed" THEN NextAttempt(n + 1)
    ELSE IF up.body.json = "null" THEN Thrown("Cannot read properties of null")
    ELSE IF Prop(up.body, "status") = Some("Success") /\ TruthyStr(Prop(up.body, "file_id"))
    THEN Break(Prop(up.body, "file_id")[1])
    ELSE IF HasProviderError(up.body) THEN Returned(ProviderError(e, up.body))
    ELSE IF Prop(up.body, "status") = Some("Failed") THEN Returned(GenerationFailed(e))
    ELSE NextAttempt(n + 1)

\* PollStep comparing the status without regard to case
PollStepAnyCaseSuccess(e, up, n) ==
    IF up.kind = "throw" THEN Thrown("fetch failed")
    ELSE IF up.body.json = "malformed" THEN NextAttempt(n + 1)
    ELSE IF up.body.json = "null" THEN Thrown("Cannot read properties of null")
    ELSE IF HasProviderError(up.body) THEN Returned(ProviderError(e, up.body))
    ELSE IF Prop(up.body, "status") \in {Some("Success"), Some("success")}
            /\ TruthyStr(Prop(up.body, "file_id"))
    THEN Break(Prop(up.body, "file_id")[1])
    ELSE IF Prop(up.body, "status") = Some("Failed") THEN Returned(GenerationFailed(e))
    ELSE NextAttempt(n + 1)

\* PollStep comparing the status with 'success' instead of 'Success'
PollStepLowercaseSuccess(e, up, n) ==
    IF up.kind = "throw" THEN Thrown("fetch failed")
    ELSE IF up.body.json = "malformed" THEN NextAttempt(n + 1)
    ELSE IF up.body.json = "null" THEN Thrown("Cannot read properties of null")
    ELSE IF HasProviderError(up.body) THEN Returned(ProviderError(e, up.body))
    ELSE IF Prop(up.body, "status") = Some("success") /\ TruthyStr(Prop(up.body, "file_id"))
    THEN Break(Prop(up.body, "file_id")[1])
    ELSE IF Prop(up.body, "status") = Some("Failed") THEN Returned(GenerationFailed(e))
    ELSE NextAttempt(n + 1)

\* PollStep without the else-if branch for 'Failed'
PollStepWithoutFailed(e, up, n) ==
    IF up.kind = "throw" THEN Thrown("fetch failed")
    ELSE IF up.body.json = "malformed" THEN NextAttempt(n + 1)
    ELSE IF up.body.json = "null" THEN Thrown("Cannot read properties of null")
    ELSE IF HasProviderError(up.body) THEN Returned(ProviderError(e, up.body))
    ELSE IF Prop(up.body, "status") = Some("Success") /\ TruthyStr(Prop(up.body, "file_id"))
    THEN Break(Prop(up.body, "file_id")[1])
    ELSE NextAttempt(n + 1)

\* PollStep without the inner try/catch around JSON.parse
PollStepParseThrows(e, up, n) ==
    IF up.kind = "throw" THEN Thrown("fetch failed")
    ELSE IF up.body.json = "malformed" THEN Thrown("Unexpected token in JSON")
    ELSE IF up.body.json = "null" THEN Thrown("Cannot read properties of null")
    ELSE IF HasProviderError(up.body) THEN Returned(ProviderError(e, up.body))
    ELSE IF Prop(up.body, "status") = Some("Success") /\ TruthyStr(Prop(up.body, "file_id"))
    THEN Break(Prop(up.body, "file_id")[1])
    ELSE IF Prop(up.body, "status") = Some("Failed") THEN Returned(GenerationFailed(e))
    ELSE NextAttempt(n + 1)

\* PollStep without the base_resp test inside the loop
PollStepWithoutErrorTest(e, up, n) ==
    IF up.kind = "throw" THEN Thrown("fetch failed")
    ELSE IF up.body.json = "malformed" THEN NextAttempt(n + 1)
    ELSE IF up.body.json = "null" THEN Thrown("Cannot read properties of null")
    ELSE IF Prop(up.body, "status") = Some("Success") /\ TruthyStr(Prop(up.body, "file_id"))
    THEN Break(Prop(up.body, "file_id")[1])
    ELSE IF Prop(up.body, "status") = Some("Failed") THEN Returned(GenerationFailed(e))
    ELSE NextAttempt(n + 1)

\* one iteration of the while loop, from the resolved status fetch on
PollStep(e, up, n) ==
    IF up.kind = "throw" THEN Thrown("fetch failed")
    ELSE IF up.body.json = "malformed" THEN NextAttempt(n + 1)
    ELSE IF up.body.json = "null" THEN Thrown("Cannot read properties of null")
    ELSE IF HasProviderError(up.body) THEN Returned(ProviderError(e, up.body))
    ELSE IF Prop(up.body, "status") = Some("Success") /\ TruthyStr(Prop(up.body, "file_id"))
    THEN Break(Prop(up.body, "file_id")[1])
    ELSE IF Prop(up.body, "status") = Some("Failed") THEN Returned(GenerationFailed(e))
    ELSE NextAttempt(n + 1)

\* LoopCondition with <= for <
LoopConditionOffByOne(e, n, fid) == n <= maxAttempts(e) /\ fid = None

\* while (attempts < maxAttempts && !fileId)
LoopCondition(e, n, fid) == n < maxAttempts(e) /\ fid = None

RetrieveUrl(fid) == "https://api.minimax.io/v1/files/retrieve?file_id=" \o fid

TimeoutResponse(e) ==
    Resp(500, ErrBody("Timeout",
              IF e = "image" THEN "Image generation timed out. Please try again."
                             ELSE "Video generation timed out. Please try again."))

\* the code after the loop: if (!fileId) timeout, else the retrieval URL
AfterLoop(e, fid, tid) ==
    IF fid = None THEN TimeoutResponse(e)
    ELSE IF e = "image"
    THEN Resp(200, [imageUrl |-> RetrieveUrl(fid[1]), fileId |-> fid[1], taskId |-> tid[1]])
    ELSE Resp(200, [videoUrl |-> RetrieveUrl(fid[1]), fileId |-> fid[1], taskId |-> tid[1]])

\* the kind of a status answer, in the order the loop body tests it
AnswerKind(up) ==
    IF up.kind = "throw" THEN "throw"
    ELSE IF up.body.json = "malformed" THEN "malformed"
    ELSE IF up.body.json = "null" THEN "null"
    ELSE IF TruthyNum(StatusCode(up.body)) THEN "error"
    ELSE IF Prop(up.body, "status") = Some("Success") /\ TruthyStr(Prop(up.body, "file_id"))
    THEN "success"
    ELSE IF Prop(up.body, "status") = Some("Failed") THEN "failed"
    ELSE "pending"

----------------------------------------------------------------------------
(* The client dispatch helper (callMinimax, generateStructuredJSON).  The   *)
(* relay's reply text is a sequence of characters, and the JSON it may hold *)
(* is built from the digit 1, strings of the letter a, arrays and objects.  *)

\* the backtick character
BT == "bt"

Q == "\""

NL == "\n"

IsWs(c) == c \in {" ", NL}

\* the first position from i on that holds no whitespace (Len(s) + 1 if none)
RECURSIVE SkipWs(_, _)
SkipWs(s, i) == IF i <= Len(s) /\ IsWs(s[i]) THEN SkipWs(s, i + 1) ELSE i

\* the last position up to i that holds no whitespace (0 if none)
RECURSIVE SkipWsBack(_, _)
SkipWsBack(s, i) == IF i >= 1 /\ IsWs(s[i]) THEN SkipWsBack(s, i - 1) ELSE i

\* String.prototype.trim
Trim(s) == SubSeq(s, SkipWs(s, 1), SkipWsBack(s, Len(s)))

StartsWith(s, p) == Len(s) >= Len(p) /\ SubSeq(s, 1, Len(p)) = p

EndsWith(s, p) == Len(s) >= Len(p) /\ SubSeq(s, Len(s) - Len(p) + 1, Len(s)) = p

Fence == << BT, BT, BT >>

JsonFence == Fence \o << "j", "s", "o", "n" >>

\* s.replace(/^FENCEjson\s*|\s*FENCE$/g, ''), FENCE being three backticks:
\* the first alternative matches only
\* at the start of the text and only with the json tag, the second only at
\* its end
StripFences(s) ==
    LET a == IF StartsWith(s, JsonFence)
             THEN SubSeq(s, SkipWs(s, Len(JsonFence) + 1), Len(s))
             ELSE s
    IN  IF EndsWith(a, Fence) THEN SubSeq(a, 1, SkipWsBack(a, Len(a) - Len(Fence))) ELSE a

ParseFail == [ok |-> FALSE, out |-> << >>, next |-> 0]

ParseOk(out, next) == [ok |-> TRUE, out |-> out, next |-> next]

\* the end of the run of digits that starts at i
RECURSIVE DigitsEnd(_, _)
DigitsEnd(s, i) == IF i <= Len(s) /\ s[i] = "1" THEN DigitsEnd(s, i + 1) ELSE i

\* the position of the quote that closes the string opened before i (0 if
\* none, or if a line break comes first)
RECURSIVE ClosingQuote(_, _)
ClosingQuote(s, i) ==
    IF i > Len(s) \/ s[i] = NL THEN 0
    ELSE IF s[i] = Q THEN i
    ELSE ClosingQuote(s, i + 1)

ParseString(s, i) ==
    IF i <= Len(s) /\ s[i] = Q /\ ClosingQuote(s, i + 1) # 0
    THEN ParseOk(SubSeq(s, i, ClosingQuote(s, i + 1)), ClosingQuote(s, i + 1) + 1)
    ELSE ParseFail

\* JSON.parse, one value from position i on: the value's text without
\* insignificant whitespace, and the position after it
RECURSIVE ParseValue(_, _), ParseElements(_, _, _), ParseMembers(_, _, _)
ParseValue(s, i) ==
    IF i > Len(s) THEN ParseFail
    ELSE IF s[i] = "1" THEN ParseOk(SubSeq(s, i, DigitsEnd(s, i) - 1), DigitsEnd(s, i))
    ELSE IF s[i] = Q THEN ParseString(s, i)
    ELSE IF s[i] = "["
    THEN LET j == SkipWs(s, i + 1)
         IN  IF j <= Len(s) /\ s[j] = "]" THEN ParseOk(<< "[", "]" >>, j + 1)
             ELSE ParseElements(s, j, << "[" >>)
    ELSE IF s[i] = "{"
    THEN LET j == SkipWs(s, i + 1)
         IN  IF j <= Len(s) /\ s[j] = "}" THEN ParseOk(<< "{", "}" >>, j + 1)
             ELSE ParseMembers(s, j, << "{" >>)
    ELSE ParseFail

ParseElements(s, i, acc) ==
    LET v == ParseValue(s, i)
        j == SkipWs(s, v.next)
    IN  IF ~v.ok \/ j > Len(s) THEN ParseFail
        ELSE IF s[j] = "," THEN ParseElements(s, SkipWs(s, j + 1), acc \o v.out \o << "," >>)
        ELSE IF s[j] = "]" THEN ParseOk(acc \o v.out \o << "]" >>, j + 1)
        ELSE ParseFail

ParseMembers(s, i, acc) ==
    LET k == ParseString(s, i)
        c == SkipWs(s, k.next)
        v == ParseValue(s, SkipWs(s, c + 1))
        j == SkipWs(s, v.next)
    IN  IF ~k.ok \/ c > Len(s) THEN ParseFail
        ELSE IF s[c] # ":" THEN ParseFail
        ELSE IF ~v.ok \/ j > Len(s) THEN ParseFail
        ELSE IF s[j] = ","
        THEN ParseMembers(s, SkipWs(s, j + 1), acc \o k.out \o << ":" >> \o v.out \o << "," >>)
        ELSE IF s[j] = "}" THEN ParseOk(acc \o k.out \o << ":" >> \o v.out \o << "}" >>, j + 1)
        ELSE ParseFail

\* JSON.parse(text): the whole text is one value between optional whitespace
ParseJSONText(s) ==
    LET v == ParseValue(s, SkipWs(s, 1))
    IN  IF v.ok /\ SkipWs(s, v.next) = Len(s) + 1 THEN v ELSE ParseFail

\* text.match(/\{[\s\S]*\}/): from the first { to the last } after it
FirstOpen(s) == IF \E i \in 1..Len(s) : s[i] = "{"
                THEN CHOOSE i \in 1..Len(s) : s[i] = "{" /\ \A j \in 1..(i - 1) : s[j] # "{"
                ELSE 0

LastClose(s) == IF \E i \in 1..Len(s) : s[i] = "}"
                THEN CHOOSE i \in 1..Len(s) : s[i] = "}" /\ \A j \in (i + 1)..Len(s) : s[j] # "}"
                ELSE 0

BraceMatch(s) ==
    IF FirstOpen(s) # 0 /\ LastClose(s) > FirstOpen(s)
    THEN Some(SubSeq(s, FirstOpen(s), LastClose(s)))
    ELSE None

\* what callMinimax or generateStructuredJSON ends with: a returned value (the
\* text of a JSON value, or the relay's message) or a thrown error
ClientReturned(v) == [t |-> "return", v |-> v, err |-> ""]

ClientThrown(e) == [t |-> "throw", v |-> << >>, err |-> e]

NoOut == [t |-> "none", v |-> << >>, err |-> ""]

\* the relay's answer to callMinimax's fetch: the fetch rejects, or resolves
\* not OK with an optional message, or OK with an optional message; the
\* message text is pre \o core \o post
RelayAnswer(kind, ok, errMessage, has, pre, core, post) ==
    [kind |-> kind, ok |-> ok, errMessage |-> errMessage, has |-> has,
     pre |-> pre, core |-> core, post |-> post]

NoRelayAnswer == RelayAnswer("none", FALSE, None, FALSE, << >>, << >>, << >>)

JsonCores ==
    {<< "1" >>,
     << Q, "a", Q >>,
     << "[", "1", "]" >>,
     << "{", "}" >>,
     << "{", Q, "a", Q, ":", "1", "}" >>,
     << "{", " ", Q, "a", Q, " ", ":", " ", "1", " ", "}" >>,
     << "{", Q, "a", Q, ":", "[", "1", "]", "}" >>,
     << "[", "{", Q, "a", Q, ":", "1", "}", "]" >>,
     << "[", "{", "}", ",", "{", "}", "]" >>}

ProseCores ==
    {<< >>,
     << "x" >>,
     << "x", " ", "x" >>,
     << "{", "x", "}" >>,
     << "x", " ", "{", "x", "}", " ", "x" >>,
     << "{" >>,
     << "}", " ", "{" >>,
     << "{", Q, "a", Q, ":", "1" >>}

OpenFences == {JsonFence \o << NL >>, Fence \o << NL >>}

CloseFences == {<< NL >> \o Fence}

Pres == {<< >>, << "x", " " >>} \cup OpenFences

Posts == {<< >>, << " ", "x" >>} \cup CloseFences

RelayAnswers ==
    {RelayAnswer("throw", FALSE, None, FALSE, << >>, << >>, << >>)}
    \cup
    {RelayAnswer("http", FALSE, m, FALSE, << >>, << >>, << >>) :
        m \in {None, Some(""), Some("Authentication failed. Please check your API key.")}}
    \cup
    {RelayAnswer("http", TRUE, None, FALSE, << >>, << >>, << >>)}
    \cup
    {RelayAnswer("http", TRUE, None, TRUE, pre, core, post) :
        pre \in Pres, core \in JsonCores \cup ProseCores, post \in Posts}

Message(a) == a.pre \o a.core \o a.post

\* callMinimax from the resolved fetch on
CallMinimaxAfterFetch(a) ==
    IF a.kind = "throw" THEN ClientThrown("fetch failed")
    ELSE IF ~a.ok
    THEN ClientThrown(IF TruthyStr(a.errMessage) THEN a.errMessage[1]
                      ELSE "Minimax API call failed")
    ELSE IF ~a.has \/ Message(a) = << >> THEN ClientThrown("No response from AI")
    ELSE ClientReturned(Message(a))

\* generateStructuredJSON from the settled callMinimax on: the outer catch
\* rethrows whatever is thrown inside
GenerateStructuredJSON(o) ==
    IF o.t = "throw" THEN o
    ELSE LET cleanedResponse == StripFences(Trim(o.v))
             jsonMatch == BraceMatch(cleanedResponse)
         IN  IF ParseJSONText(cleanedResponse).ok
             THEN ClientReturned(ParseJSONText(cleanedResponse).out)
             ELSE IF jsonMatch # None
             THEN IF ParseJSONText(jsonMatch[1]).ok
                  THEN ClientReturned(ParseJSONText(jsonMatch[1]).out)
                  ELSE ClientThrown("SyntaxError")
             ELSE ClientThrown("Invalid JSON response")

\* no helper call is in progress
ClientIdle == [pc |-> "idle", hasKey |-> FALSE, answer |-> NoRelayAnswer, out |-> NoOut]

\* the request callMinimax posts to the chat relay
ClientRequest ==
    [method |-> "POST", json |-> "object", apiKey |-> Some("v"),
     f |-> [x \in PayloadFields("chat") |-> Some("v")]]

----------------------------------------------------------------------------
(* The state machine.                                                       *)

NoAnswer == [kind |-> "none"]

\* the handler is entered with the request
HandlerStart ==
    /\ endpoint \in Endpoints
    /\ req \in Requests(endpoint)
    /\ pc = "start"
    /\ taskId = None
    /\ fileId = None
    /\ attempts = 0
    /\ calls = 0
    /\ polls = 0
    /\ delays = 0
    /\ response = << >>
    /\ escaped = FALSE
    /\ lastUp = NoAnswer
    /\ answered = 0
    /\ sawPending = FALSE
    /\ sawMalformed = FALSE

Init == HandlerStart /\ client = ClientIdle /\ runs = << >>

\* the handler ends: it returns a response, or the error leaves it
Finish(o) ==
    /\ pc' = "done"
    /\ response' = IF o.t = "return" THEN Append(response, o.r) ELSE response
    /\ escaped' = (escaped \/ o.t = "throw")

\* the request arrives: OPTIONS, req.json(), the field checks, the first fetch
Receive ==
    /\ pc = "start"
    /\ IF req.method = "OPTIONS"
       THEN /\ Finish(Returned(OptionsResponse))
            /\ UNCHANGED calls
       ELSE LET o == Catch(endpoint, Validate(endpoint, req))
            IN  IF o.t = "continue"
                THEN /\ pc' = "awaitFetch"
                     /\ calls' = calls + 1
                     /\ UNCHANGED << response, escaped >>
                ELSE /\ Finish(o)
                     /\ UNCHANGED calls
    /\ UNCHANGED << client, runs, endpoint, req, taskId, fileId, attempts, polls, delays,
                    lastUp, answered, sawPending, sawMalformed >>

\* a synchronous relay's call returns
RelayReturn(e, o, up) ==
    /\ pc = "awaitFetch"
    /\ endpoint = e
    /\ Finish(Catch(e, o))
    /\ lastUp' = up
    /\ UNCHANGED << client, runs, endpoint, req, taskId, fileId, attempts, calls, polls, delays,
                    answered, sawPending, sawMalformed >>

ChatReturn == \E up \in FirstAnswers("chat") : RelayReturn("chat", ChatAfterFetch(up), up)

BlueprintReturn ==
    \E up \in FirstAnswers("blueprint") : RelayReturn("blueprint", BlueprintAfterFetch(up), up)

VisionReturn ==
    \E up \in FirstAnswers("vision") : RelayReturn("vision", VisionAfterFetch(up), up)

AudioReturn == \E up \in FirstAnswers("audio") : RelayReturn("audio", AudioAfterFetch(up), up)

\* the loop head: start the 5 second delay, or leave the loop
LoopHead(n, fid, tid) ==
    IF LoopCondition(endpoint, n, fid)
    THEN /\ pc' = "awaitDelay"
         /\ delays' = delays + 1
         /\ UNCHANGED << response, escaped >>
    ELSE /\ Finish(Returned(AfterLoop(endpoint, fid, tid)))
         /\ UNCHANGED delays

\* the submit call of a job runner returns, with an answer drawn from A
SubmitReturnFrom(A) ==
    /\ pc = "awaitFetch"
    /\ endpoint \in JobEndpoints
    /\ \E up \in A :
          LET o == Catch(endpoint, SubmitAfterFetch(endpoint, up))
          IN  /\ lastUp' = up
              /\ IF o.t = "continue"
                 THEN /\ taskId' = Some(o.x)
                      /\ LoopHead(0, None, Some(o.x))
                 ELSE /\ Finish(o)
                      /\ UNCHANGED << taskId, delays >>
    /\ UNCHANGED << client, runs, endpoint, req, fileId, attempts, calls, polls,
                    answered, sawPending, sawMalformed >>

SubmitReturn == SubmitReturnFrom(FirstAnswers(endpoint))

\* the delay elapses and the status fetch is issued
DelayDone ==
    /\ pc = "awaitDelay"
    /\ pc' = "awaitPoll"
    /\ polls' = polls + 1
    /\ calls' = calls + 1
    /\ UNCHANGED << client, runs, endpoint, req, taskId, fileId, attempts, delays, response,
                    escaped, lastUp, answered, sawPending, sawMalformed >>

\* the status fetch returns, with an answer drawn from A: the rest of the
\* iteration, up to the next await
PollReturnFrom(A) ==
    /\ pc = "awaitPoll"
    /\ \E up \in A :
          LET o == Catch(endpoint, PollStep(endpoint, up, attempts))
          IN  /\ lastUp' = up
              /\ answered' = answered + 1
              /\ sawPending' = (sawPending \/ AnswerKind(up) = "pending")
              /\ sawMalformed' = (sawMalformed \/ AnswerKind(up) = "malformed")
              /\ CASE o.t = "next" ->
                        /\ attempts' = o.attempts
                        /\ UNCHANGED fileId
                        /\ LoopHead(o.attempts, fileId, taskId)
                   [] o.t = "break" ->
                        /\ fileId' = Some(o.fileId)
                        /\ UNCHANGED << attempts, delays >>
                        /\ Finish(Returned(AfterLoop(endpoint, Some(o.fileId), taskId)))
                   [] OTHER ->
                        /\ Finish(o)
                        /\ UNCHANGED << attempts, fileId, delays >>
    /\ UNCHANGED << client, runs, endpoint, req, taskId, calls, polls >>

PollReturn == PollReturnFrom(PollAnswers)

Next ==
    \/ Receive
    \/ ChatReturn
    \/ BlueprintReturn
    \/ VisionReturn
    \/ AudioReturn
    \/ SubmitReturn
    \/ DelayDone
    \/ PollReturn

Spec == Init /\ [][Next]_vars

----------------------------------------------------------------------------
(* One generateStructuredJSON call of the client helper.  The chat relay    *)
(* invocation that serves it is not run here: its answer is drawn from      *)
(* RelayAnswers when the helper's fetch returns.                            *)

ClientInit ==
    /\ HandlerStart
    /\ endpoint = "chat"
    /\ req = ClientRequest
    /\ client \in {[pc |-> "start", hasKey |-> h, answer |-> NoRelayAnswer, out |-> NoOut] :
                      h \in BOOLEAN}
    /\ runs = << >>

HandlerVars == << endpoint, req, pc, taskId, fileId, attempts, calls, polls, delays,
                  response, escaped, lastUp, answered, sawPending, sawMalformed >>

\* callMinimax reads the environment and issues the fetch
ClientCall ==
    /\ client.pc = "start"
    /\ client' = IF client.hasKey
                 THEN [client EXCEPT !.pc = "awaitRelay"]
                 ELSE [client EXCEPT !.pc = "done",
                                     !.out = ClientThrown("Missing environment variables")]
    /\ UNCHANGED << HandlerVars, runs >>

\* the fetch returns: the rest of callMinimax and of generateStructuredJSON
ClientRelayReturn ==
    /\ client.pc = "awaitRelay"
    /\ \E a \in RelayAnswers :
          client' = [client EXCEPT !.pc = "done",
                                   !.answer = a,
                                   !.out = GenerateStructuredJSON(CallMinimaxAfterFetch(a))]
    /\ UNCHANGED << HandlerVars, runs >>

ClientNext ==
    \/ ClientCall
    \/ ClientRelayReturn

ClientSpec == ClientInit /\ [][ClientNext]_vars

----------------------------------------------------------------------------
(* The job runners alone, with one provider answer of each kind the submit  *)
(* code and the loop body tell apart, and every pending promise settling.   *)

SubmitKinds ==
    {FetchThrows,
     Http(503, [json |-> "object", base_resp |-> None, task_id |-> Some("t1")]),
     Http(200, Malformed),
     Http(200, JNull),
     Http(200, [json |-> "object",
                base_resp |-> Some([status_code |-> Some(1008), status_msg |-> None]),
                task_id |-> None]),
     Http(200, [json |-> "object", base_resp |-> None, task_id |-> None]),
     Http(200, [json |-> "object", base_resp |-> None, task_id |-> Some("t1")])}

PollKinds ==
    {FetchThrows,
     Http(200, Malformed),
     Http(200, JNull),
     Http(200, StatusObj(Some([status_code |-> Some(1004), status_msg |-> None]), None, None)),
     Http(200, StatusObj(None, Some("Success"), Some("f1"))),
     Http(200, StatusObj(None, Some("Success"), None)),
     Http(200, StatusObj(None, Some("Failed"), None)),
     Http(200, StatusObj(None, Some("Processing"), None)),
     Http(503, StatusObj(None, Some("Processing"), None))}

JobInit == Init /\ endpoint \in JobEndpoints

JobSubmitReturn == SubmitReturnFrom(SubmitKinds)

JobPollReturn == PollReturnFrom(PollKinds)

JobNext ==
    \/ Receive
    \/ JobSubmitReturn
    \/ DelayDone
    \/ JobPollReturn

\* each outbound call and each delay returns
FairJobSpec == JobInit /\ [][JobNext]_vars /\ WF_vars(JobNext)

----------------------------------------------------------------------------
(* Concurrent job-runner invocations.  The runtime runs one callback per    *)
(* request; taskId, attempts and fileId are declared inside the callback,   *)
(* so each invocation has its own.  An invocation's record also keeps the   *)
(* provider's first answer, its latest poll answer and how many polls were  *)
(* answered.  The first invocation is an image job, the second either job. *)

Invocations == {1, 2}

\* the requests of the concurrent invocations: a credential, any prompt
RunRequests(e) ==
    {r \in Requests(e) : r.method = "POST" /\ r.json = "object" /\ r.apiKey = Some("v")}

RunPollKinds ==
    {FetchThrows,
     Http(200, Malformed),
     Http(200, StatusObj(Some([status_code |-> Some(1004), status_msg |-> None]), None, None)),
     Http(200, StatusObj(None, Some("Success"), Some("f1"))),
     Http(200, StatusObj(None, Some("Failed"), None)),
     Http(200, StatusObj(None, Some("Processing"), None))}

NewRun(e, r) ==
    [endpoint |-> e, req |-> r, pc |-> "start", taskId |-> None, fileId |-> None,
     attempts |-> 0, polls |-> 0, response |-> << >>,
     first |-> NoAnswer, last |-> NoAnswer, answered |-> 0]

\* Attempts with the counter declared at module level: every invocation
\* reads the counter the first one writes
AttemptsShared(rs, i) == rs[1].attempts

\* let attempts = 0, declared inside the callback: invocation i reads its own
Attempts(rs, i) == rs[i].attempts

\* the invocation ends with a response
RunFinish(me, o) == [me EXCEPT !.pc = "done", !.response = << o.r >>]

\* the loop head of an invocation
RunLoopHead(me) ==
    IF LoopCondition(me.endpoint, me.attempts, me.fileId)
    THEN [me EXCEPT !.pc = "awaitDelay"]
    ELSE RunFinish(me, Returned(AfterLoop(me.endpoint, me.fileId, me.taskId)))

RunReceive(i) ==
    LET me == runs[i]
        o  == Catch(me.endpoint, Validate(me.endpoint, me.req))
    IN  /\ me.pc = "start"
        /\ runs' = [runs EXCEPT ![i] = IF o.t = "continue"
                                        THEN [me EXCEPT !.pc = "awaitFetch"]
                                        ELSE RunFinish(me, o)]
        /\ UNCHANGED << HandlerVars, client >>

RunSubmitReturn(i) ==
    LET me == runs[i]
    IN  /\ me.pc = "awaitFetch"
        /\ \E up \in SubmitKinds :
              LET o == Catch(me.endpoint, SubmitAfterFetch(me.endpoint, up))
              IN  runs' = [runs EXCEPT ![i] =
                              IF o.t = "continue"
                              THEN RunLoopHead([me EXCEPT !.first = up, !.taskId = Some(o.x)])
                              ELSE RunFinish([me EXCEPT !.first = up], o)]
        /\ UNCHANGED << HandlerVars, client >>

RunDelayDone(i) ==
    LET me == runs[i]
    IN  /\ me.pc = "awaitDelay"
        /\ runs' = [runs EXCEPT ![i] = [me EXCEPT !.pc = "awaitPoll", !.polls = me.polls + 1]]
        /\ UNCHANGED << HandlerVars, client >>

RunPollReturn(i) ==
    LET me == runs[i]
    IN  /\ me.pc = "awaitPoll"
        /\ \E up \in RunPollKinds :
              LET o   == Catch(me.endpoint, PollStep(me.endpoint, up, Attempts(runs, i)))
                  got == [me EXCEPT !.last = up, !.answered = me.answered + 1]
              IN  runs' = [runs EXCEPT ![i] =
                              CASE o.t = "next"  -> RunLoopHead([got EXCEPT !.attempts = o.attempts])
                                [] o.t = "break" -> RunLoopHead([got EXCEPT !.fileId = Some(o.fileId)])
                                [] OTHER         -> RunFinish(got, o)]
        /\ UNCHANGED << HandlerVars, client >>

ConcInit ==
    /\ HandlerStart
    /\ endpoint = "chat"
    /\ req = ClientRequest
    /\ client = ClientIdle
    /\ runs \in [Invocations -> UNION {{NewRun(e, r) : r \in RunRequests(e)} : e \in JobEndpoints}]
    /\ runs[1].endpoint = "image"

ConcNext ==
    \E i \in Invocations :
       \/ RunReceive(i)
       \/ RunSubmitReturn(i)
       \/ RunDelayDone(i)
       \/ RunPollReturn(i)

ConcSpec == ConcInit /\ [][ConcNext]_vars

----------------------------------------------------------------------------
(* Properties.                                                              *)

Done == pc = "done"

\* the latest answer is that of a status poll
PollAnswered == answered >= 1 /\ lastUp.kind # "none"

\* the latest answer is that of the first outbound call
FirstAnswered == answered = 0 /\ lastUp.kind # "none"

\* the handler parsed the latest answer and got a JSON object
ParsedEnvelope ==
    /\ lastUp.kind = "http"
    /\ lastUp.body.json = "object"
    /\ (answered = 0 => Ok(lastUp.status))

LastCode == StatusCode(lastUp.body)

LastMsg == Prop(lastUp.body, "base_resp")[1].status_msg

\* the codes of an endpoint's table, as the claims list them
TableCodes(e) == {1004, 1008, 1002} \cup (IF e \in ChatEndpoints THEN {1039} ELSE {1013})

\* C1: a POST whose JSON object body lacks a required field of the endpoint
\* (apiKey for all, messages for chat, imageBase64/objectName/mode for
\* blueprint, imageBase64 for vision, text for audio, prompt for image and
\* video) ends with an HTTP 400 response and no outbound call.
C1_MissingFieldIs400 ==
    (/\ req.method = "POST"
     /\ req.json = "object"
     /\ (req.apiKey = None \/ \E x \in PayloadFields(endpoint) : req.f[x] = None)
     /\ pc # "start")
    => (/\ Done
        /\ calls = 0
        /\ Len(response) = 1
        /\ response[1].status = 400)

\* C2: if the status endpoint answers pending on polls 1..k-1 and success with
\* a file id on poll k, exactly k polls are issued, each after exactly one
\* delay, and the response is a 200 whose retrieval URL and fileId carry that
\* file id.
C2_SuccessOnPollK ==
    (PollAnswered /\ AnswerKind(lastUp) = "success" /\ ~sawMalformed)
    => (/\ Done
        /\ answered <= maxAttempts(endpoint)
        /\ polls = answered
        /\ delays = answered
        /\ calls = answered + 1
        /\ attempts = answered - 1
        /\ Len(response) = 1
        /\ response[1].status = 200
        /\ response[1].body.fileId = lastUp.body.file_id[1]
        /\ response[1].body[IF endpoint = "image" THEN "imageUrl" ELSE "videoUrl"]
             = "https://api.minimax.io/v1/files/retrieve?file_id=" \o lastUp.body.file_id[1])

\* C2 witness: the success arrives on the last poll the video ceiling allows
C2_Witness ==
    /\ Done
    /\ endpoint = "video"
    /\ answered = 60
    /\ AnswerKind(lastUp) = "success"
    /\ ~sawMalformed

\* C3 as stated: if no poll returns success with a file id, a failed status
\* or a provider error code, exactly `ceiling` polls are issued and the
\* response is the 500 Timeout error.
C3_Original ==
    (Done /\ taskId # None /\ AnswerKind(lastUp) \notin {"success", "failed", "error"})
    => (/\ polls = maxAttempts(endpoint)
        /\ response = << TimeoutResponse(endpoint) >>)

\* C3 amended: if every poll returns a response whose body is not JSON or
\* parses to a non-null value that is pending (no provider code, not success
\* with a file id, not failed), exactly `ceiling` polls are issued (30 image,
\* 60 video) and the response is the 500 Timeout error, which differs from
\* the Generation failed error and from the generic unexpected-error response.
C3_TimeoutAfterCeiling ==
    (Done /\ taskId # None /\ AnswerKind(lastUp) \in {"pending", "malformed"})
    => (/\ polls = (IF endpoint = "image" THEN 30 ELSE 60)
        /\ answered = polls
        /\ delays = polls
        /\ Len(response) = 1
        /\ response[1].status = 500
        /\ response[1].body.error = "Timeout"
        /\ response[1].body.error # GenerationFailed(endpoint).body.error
        /\ response[1].body.message # CatchMessage(endpoint))

\* C3 witness: an image job that was pending on every poll
C3_Witness ==
    /\ Done
    /\ endpoint = "image"
    /\ taskId # None
    /\ AnswerKind(lastUp) = "pending"
    /\ ~sawMalformed
    /\ polls = 30

\* C4: if the status endpoint returns a failed status on poll j (earlier
\* polls pending), no poll follows poll j and the response is the 500
\* Generation failed error, which is not the timeout error.
C4_FailedStopsPolling ==
    (PollAnswered /\ AnswerKind(lastUp) = "failed" /\ ~sawMalformed)
    => (/\ Done
        /\ polls = answered
        /\ calls = answered + 1
        /\ delays = answered
        /\ Len(response) = 1
        /\ response[1].status = 500
        /\ response[1].body.error = "Generation failed"
        /\ response[1] # TimeoutResponse(endpoint))

\* C4 witness: failed on poll 3 after two pending polls
C4_Witness ==
    /\ Done
    /\ answered = 3
    /\ AnswerKind(lastUp) = "failed"
    /\ sawPending
    /\ ~sawMalformed

\* C5: when a parsed provider envelope carries a code of the endpoint's table,
\* the returned message is the table entry, whatever status_msg is.
C5_KnownCodeMessage ==
    (ParsedEnvelope /\ LastCode # None /\ LastCode[1] \in TableCodes(endpoint))
    => (/\ Done
        /\ Len(response) = 1
        /\ response[1].status = 500
        /\ response[1].body.message = ERROR_MESSAGES(endpoint)[LastCode[1]]
        /\ response[1].body.message \notin {"provider text", "Unknown error", ""})

\* C5 witness: a known code arrives with a provider text of its own
C5_Witness ==
    /\ Done
    /\ ParsedEnvelope
    /\ LastCode = Some(1008)
    /\ LastMsg = Some("provider text")
    /\ endpoint = "audio"

\* C6 as stated: for a non-zero code outside the table the returned message
\* equals the provider's status_msg.
C6_Original ==
    (ParsedEnvelope /\ TruthyNum(LastCode) /\ LastCode[1] \notin TableCodes(endpoint) /\ Done)
    => Some(response[1].body.message) = LastMsg

\* C6 amended: for a non-zero code outside the table the returned message
\* equals the provider's status_msg when that is a non-empty string, and is
\* 'Unknown error' when status_msg is absent or empty.
C6_UnknownCodeMessage ==
    (ParsedEnvelope /\ TruthyNum(LastCode) /\ LastCode[1] \notin TableCodes(endpoint))
    => (/\ Done
        /\ Len(response) = 1
        /\ response[1].status = 500
        /\ response[1].body.message =
             (IF LastMsg # None /\ LastMsg[1] # "" THEN LastMsg[1] ELSE "Unknown error"))

\* C6 witness: code 1039 is outside the video table and carries a text
C6_Witness ==
    /\ Done
    /\ endpoint = "video"
    /\ ParsedEnvelope
    /\ LastCode = Some(1039)
    /\ LastMsg = Some("provider text")

\* C7: no exception leaves a handler; every invocation ends with exactly one
\* response, of status 200, 400 or 500, and every failure carries a body with
\* the fields error and message.
C7_NoEscape ==
    /\ ~escaped
    /\ Len(response) = (IF Done THEN 1 ELSE 0)
    /\ Done => /\ response[1].status \in {200, 400, 500}
               /\ (response[1].status # 200 =>
                     {"error", "message"} \subseteq DOMAIN response[1].body)

\* C7 witness: the status fetch rejected, or a body parsed to null
C7_Witness ==
    /\ Done
    /\ \/ lastUp.kind = "throw" /\ answered >= 1
       \/ lastUp.kind = "http" /\ lastUp.body.json = "null" /\ endpoint = "vision"
    /\ response[1].body.message = CatchMessage(endpoint)

\* the submit answer is one the handler must not poll after
BadSubmit ==
    /\ endpoint \in JobEndpoints
    /\ FirstAnswered
    /\ lastUp.kind = "http"
    /\ \/ ~Ok(lastUp.status)
       \/ lastUp.body.json # "object"
       \/ TruthyNum(LastCode)
       \/ Prop(lastUp.body, "task_id") \in {None, Some("")}

\* C8: a submit response with a non-OK status, an unparseable body, a
\* non-zero provider code or no task_id yields a 500 with no poll, no delay.
C8_BadSubmitNoPoll ==
    BadSubmit
    => (/\ Done
        /\ Len(response) = 1
        /\ response[1].status = 500
        /\ polls = 0
        /\ delays = 0
        /\ calls = 1)

\* C8 witness: a 503 submit answer whose body would otherwise start a job
C8_Witness ==
    /\ BadSubmit
    /\ ~Ok(lastUp.status)
    /\ lastUp.body.json = "object"
    /\ Prop(lastUp.body, "task_id") = Some("t1")
    /\ ~TruthyNum(LastCode)

\* C9: a poll whose body is not JSON consumes exactly one attempt and does
\* not abort the loop: the next delay starts unless the ceiling is reached,
\* and a run of only malformed bodies ends in the Timeout error after
\* exactly `ceiling` polls.
C9_MalformedCountsAndContinues ==
    /\ [][(pc = "awaitPoll" /\ answered' = answered + 1 /\ AnswerKind(lastUp') = "malformed")
          => (/\ attempts' = attempts + 1
              /\ IF attempts' < (IF endpoint = "image" THEN 30 ELSE 60)
                 THEN pc' = "awaitDelay" /\ delays' = delays + 1 /\ response' = << >>
                 ELSE pc' = "done" /\ response' = << TimeoutResponse(endpoint) >>)]_vars
    /\ []((Done /\ taskId # None /\ sawMalformed /\ ~sawPending
             /\ AnswerKind(lastUp) = "malformed")
          => (polls = (IF endpoint = "image" THEN 30 ELSE 60)
              /\ response = << TimeoutResponse(endpoint) >>))

\* C9 witness: sixty malformed bodies in a row
C9_Witness ==
    /\ Done
    /\ endpoint = "video"
    /\ sawMalformed
    /\ ~sawPending
    /\ answered = 60
    /\ AnswerKind(lastUp) = "malformed"

\* C10: the first poll whose parsed body reports a non-zero provider code ends
\* the invocation with the normalized error 'Error <code>'; no poll and no
\* delay follows.
C10_PollErrorEndsRun ==
    (PollAnswered /\ AnswerKind(lastUp) = "error")
    => (/\ Done
        /\ polls = answered
        /\ delays = answered
        /\ calls = answered + 1
        /\ response = << Resp(500, ErrBody("Error " \o ToString(LastCode[1]),
                                           ErrorMessage(endpoint, Prop(lastUp.body, "base_resp")[1]))) >>)

\* C10 witness: code 1002 on the second poll
C10_Witness ==
    /\ Done
    /\ answered = 2
    /\ AnswerKind(lastUp) = "error"
    /\ LastCode = Some(1002)
    /\ response[1].body.error = "Error 1002"

\* the latest answer reports a failure of its outbound call: the fetch
\* rejected, the HTTP status is not OK, the body is not JSON, the body carries
\* a non-zero provider code, or a status poll reports 'Failed'
OutboundFailure ==
    /\ lastUp.kind # "none"
    /\ \/ lastUp.kind = "throw"
       \/ ~Ok(lastUp.status)
       \/ lastUp.body.json = "malformed"
       \/ TruthyNum(LastCode)
       \/ (PollAnswered /\ Prop(lastUp.body, "status") = Some("Failed"))

\* the latest answer is a status poll whose body is not JSON
MalformedPoll == PollAnswered /\ lastUp.kind = "http" /\ lastUp.body.json = "malformed"

\* C11: the only failure after which a handler issues another outbound call
\* is a status poll whose body is not JSON; after every other failure of an
\* outbound call, a non-OK HTTP status on a status poll included, the
\* invocation is over and no further call is made.
C11_OnlyMalformedPollRetried == (OutboundFailure /\ ~MalformedPoll) => Done

\* the normalized provider error of the latest answer: 'Error <code>' with the
\* table's message, else the provider's status_msg, else 'Unknown error'
NormalizedError ==
    Resp(500, [error   |-> "Error " \o ToString(LastCode[1]),
               message |-> IF LastCode[1] \in TableCodes(endpoint)
                           THEN ERROR_MESSAGES(endpoint)[LastCode[1]]
                           ELSE IF TruthyStr(LastMsg) THEN LastMsg[1]
                           ELSE "Unknown error"])

\* C12 as stated: whenever the response of an outbound call carries a
\* non-zero base_resp.status_code, whatever its HTTP status, the handler's
\* result is the normalized provider error for that code.
C12_Original ==
    (lastUp.kind = "http" /\ lastUp.body.json = "object" /\ TruthyNum(LastCode))
    => (Done /\ response = << NormalizedError >>)

\* C12: whenever the handler parses the response of an outbound call (a first
\* call with an OK HTTP status, or any status poll) into a JSON object that
\* carries a non-zero base_resp.status_code, the handler's result is the
\* normalized provider error for that code.
C12_ParsedCodeIsNormalized ==
    (ParsedEnvelope /\ TruthyNum(LastCode))
    => (Done /\ Len(response) = 1 /\ response = << NormalizedError >>)

\* C12 witness: the text-to-audio call answers 200 with code 1013
C12_Witness ==
    /\ endpoint = "audio"
    /\ ParsedEnvelope
    /\ LastCode = Some(1013)
    /\ response = << NormalizedError >>

\* a parsed envelope without provider code and without assistant content
NoAssistantMessage ==
    /\ endpoint \in ChatEndpoints
    /\ ParsedEnvelope
    /\ ~TruthyNum(LastCode)
    /\ Prop(lastUp.body, "content") \in {None, Some([isString |-> TRUE, text |-> ""])}

\* a parsed submit envelope without provider code and without task id
NoTaskId ==
    /\ endpoint \in JobEndpoints
    /\ FirstAnswered
    /\ ParsedEnvelope
    /\ ~TruthyNum(LastCode)
    /\ Prop(lastUp.body, "task_id") \in {None, Some("")}

\* a parsed status envelope without provider code that reports 'Success'
\* without a file id
SuccessWithoutFileId ==
    /\ PollAnswered
    /\ ParsedEnvelope
    /\ ~TruthyNum(LastCode)
    /\ Prop(lastUp.body, "status") = Some("Success")
    /\ Prop(lastUp.body, "file_id") \in {None, Some("")}

\* the 500 response with the given error and message, whatever else it holds
Is500(error, message) ==
    /\ Done
    /\ Len(response) = 1
    /\ response[1].status = 500
    /\ response[1].body.error = error
    /\ response[1].body.message = message

\* C13 as stated: each of the three missing payloads (assistant message, task
\* id, file id of a status response that reports success) is reported at
\* once as a 500 of its own, which is not the 'Timeout' error.
C13_Original ==
    /\ NoAssistantMessage => (Done /\ response[1].status = 500)
    /\ NoTaskId => (Done /\ response[1].status = 500)
    /\ SuccessWithoutFileId
         => (Done /\ response[1].status = 500 /\ response[1].body.error # "Timeout")

\* C13: a parsed envelope without provider code that lacks the assistant
\* message (chat, blueprint, vision) is reported as the 500 'No response',
\* and one that lacks the task id (image, video submit) as the 500 'No task
\* ID', each with the endpoint's own message.  A status response that reports
\* success without a file id is not reported: it counts as a pending poll,
\* and the invocation ends with the 500 'Timeout' only when that poll was
\* the last one the ceiling allows.
C13_MissingPayload ==
    /\ NoAssistantMessage
         => Is500("No response",
                  IF endpoint = "blueprint"
                  THEN "The AI did not generate a blueprint. Please try again."
                  ELSE "The AI did not generate a response. Please try again.")
    /\ NoTaskId
         => Is500("No task ID",
                  IF endpoint = "image"
                  THEN "Failed to get task ID from image generation request."
                  ELSE "Failed to get task ID from video generation request.")
    /\ SuccessWithoutFileId
         => /\ fileId = None
            /\ IF answered < (IF endpoint = "image" THEN 30 ELSE 60)
               THEN pc \in {"awaitDelay", "awaitPoll"} /\ response = << >>
               ELSE Is500("Timeout",
                          IF endpoint = "image"
                          THEN "Image generation timed out. Please try again."
                          ELSE "Video generation timed out. Please try again.")

\* C13 witness: the second poll reports success without a file id and the
\* handler is waiting to poll again
C13_Witness ==
    /\ SuccessWithoutFileId
    /\ answered = 2
    /\ pc = "awaitDelay"
    /\ taskId = Some("t1")

\* the first failing stage of a blueprint invocation, in the order missing
\* credential (1), missing fields (2), non-OK HTTP status (3), unparseable
\* envelope (4), provider error code (5), missing assistant content (6),
\* unparseable blueprint JSON (7); 0 when none of them fails
BlueprintStage(r, up) ==
    IF ~TruthyStr(r.apiKey) THEN 1
    ELSE IF \E x \in {"imageBase64", "objectName", "mode"} : ~TruthyStr(r.f[x]) THEN 2
    ELSE IF up.kind # "http" THEN 0
    ELSE IF ~Ok(up.status) THEN 3
    ELSE IF up.body.json = "malformed" THEN 4
    ELSE IF up.body.json = "null" THEN 0
    ELSE IF TruthyNum(StatusCode(up.body)) THEN 5
    ELSE IF ~TruthyContent(Prop(up.body, "content")) THEN 6
    ELSE IF ~JSONParse(Prop(up.body, "content")[1].text).ok THEN 7
    ELSE 0

\* the error field each stage answers with
BlueprintStageError(s, up) ==
    CASE s = 1 -> "API key not provided"
      [] s = 2 -> "Missing required fields"
      [] s = 3 -> "API error: " \o ToString(up.status)
      [] s = 4 -> "Invalid response"
      [] s = 5 -> "Error " \o ToString(StatusCode(up.body)[1])
      [] s = 6 -> "No response"
      [] s = 7 -> "Invalid blueprint format"

BlueprintObjectRequests == {r \in Requests("blueprint") : r.method = "POST" /\ r.json = "object"}

CompleteBlueprintRequest == CHOOSE r \in BlueprintObjectRequests : BlueprintStage(r, NoAnswer) = 0

ErrorPair(resp) == << resp.body.error, resp.body.message >>

\* the {error, message} pairs the handler answers with in each stage, over
\* all requests and all upstream answers
BlueprintStagePairs ==
    [s \in 1..7 |->
        IF s <= 2
        THEN {ErrorPair(Catch("blueprint", Validate("blueprint", r)).r) :
                r \in {q \in BlueprintObjectRequests : BlueprintStage(q, NoAnswer) = s}}
        ELSE {ErrorPair(Catch("blueprint", BlueprintAfterFetch(up)).r) :
                up \in {a \in FirstAnswers("blueprint") :
                          BlueprintStage(CompleteBlueprintRequest, a) = s}}]

\* C14: in the blueprint generator the stages missing credential, missing
\* fields, non-OK HTTP status, unparseable envelope, provider error code,
\* missing assistant content and unparseable blueprint JSON are checked in
\* that order: the first failing stage alone fixes the response (400 without
\* any outbound call for the first two, 500 after exactly one call for the
\* others), and no {error, message} pair of one stage is a pair of another.
C14_BlueprintStages ==
    /\ (endpoint = "blueprint" /\ req \in BlueprintObjectRequests /\ pc # "start")
         => LET s == BlueprintStage(req, lastUp)
            IN  /\ s \in {1, 2} =>
                      /\ Done
                      /\ calls = 0
                      /\ response[1].status = 400
                      /\ response[1].body.error = BlueprintStageError(s, lastUp)
                /\ s \in 3..7 =>
                      /\ Done
                      /\ calls = 1
                      /\ response[1].status = 500
                      /\ response[1].body.error = BlueprintStageError(s, lastUp)
                      /\ ErrorPair(response[1]) \in BlueprintStagePairs[s]
    /\ \A s \in 1..7 : BlueprintStagePairs[s] # {}
    /\ \A s, t \in 1..7 : s # t => BlueprintStagePairs[s] \cap BlueprintStagePairs[t] = {}

\* C14 witness: a 503 answer whose body carries a provider code and no
\* assistant content, reported by the earliest stage, the HTTP status
C14_Witness ==
    /\ endpoint = "blueprint"
    /\ Done
    /\ lastUp.kind = "http"
    /\ lastUp.status = 503
    /\ lastUp.body.json = "object"
    /\ TruthyNum(LastCode)
    /\ Prop(lastUp.body, "content") = None
    /\ response[1].body.error = "API error: 503"

\* the chat relay's call answered OK with a body that parses to a non-null
\* value
ChatParsed ==
    /\ endpoint = "chat"
    /\ FirstAnswered
    /\ lastUp.kind = "http"
    /\ Ok(lastUp.status)
    /\ lastUp.body.json \in {"object", "scalar"}

\* C18: in the chat relay an OK upstream response whose body parses, carries
\* no non-zero provider code and has a non-empty first-choice message content
\* yields HTTP 200 with exactly {message: that content, usage: the provider's
\* usage} after exactly one outbound call; an OK response whose body does not
\* parse, or parses without a first-choice assistant message, yields a 500.
C18_ChatSuccess ==
    /\ (ChatParsed /\ ~TruthyNum(LastCode) /\ TruthyContent(Prop(lastUp.body, "content")))
         => /\ Done
            /\ calls = 1
            /\ Len(response) = 1
            /\ response[1].status = 200
            /\ response[1].body.message = Prop(lastUp.body, "content")[1]
            /\ IF Prop(lastUp.body, "usage") = None
               THEN DOMAIN response[1].body = {"message"}
               ELSE /\ DOMAIN response[1].body = {"message", "usage"}
                    /\ response[1].body.usage = Prop(lastUp.body, "usage")[1]
    /\ (/\ endpoint = "chat"
        /\ FirstAnswered
        /\ lastUp.kind = "http"
        /\ Ok(lastUp.status)
        /\ \/ lastUp.body.json = "malformed"
           \/ ChatParsed /\ ~TruthyNum(LastCode) /\ ~TruthyContent(Prop(lastUp.body, "content")))
         => /\ Done
            /\ calls = 1
            /\ Len(response) = 1
            /\ response[1].status = 500
            /\ response[1].body.error =
                 (IF lastUp.body.json = "malformed" THEN "Invalid response" ELSE "No response")

\* C18 witness: the provider answers 'hello' with a usage record
C18_Witness ==
    /\ ChatParsed
    /\ Done
    /\ Prop(lastUp.body, "content") = Some([isString |-> TRUE, text |-> "hello"])
    /\ Prop(lastUp.body, "usage") # None
    /\ ~TruthyNum(LastCode)
    /\ response[1].status = 200
    /\ response[1].body.usage.total_tokens = 5

\* C19: in the vision detector, whenever the assistant's text parses as JSON
\* and the parsed value has no `objects` key, for any parsed value, null
\* included, the handler returns HTTP 200 with objects equal to the empty list.
C19_NoObjectsKeyIsEmptyList ==
    (/\ endpoint = "vision"
     /\ ParsedEnvelope
     /\ ~TruthyNum(LastCode)
     /\ TruthyContent(Prop(lastUp.body, "content"))
     /\ Prop(lastUp.body, "content")[1].isString
     /\ JSONParse(Prop(lastUp.body, "content")[1].text).ok
     /\ Prop(JSONParse(Prop(lastUp.body, "content")[1].text).v, "objects") = None)
    => (/\ Done
        /\ Len(response) = 1
        /\ response[1].status = 200
        /\ response[1].body.objects = << >>)

\* the counters of a job-runner invocation stay within the ceiling
JobRunnerBounded ==
    endpoint \in JobEndpoints
    => LET ceiling == IF endpoint = "image" THEN 30 ELSE 60
       IN  /\ attempts \in 0..ceiling
           /\ polls <= ceiling
           /\ calls <= 1 + ceiling
           /\ calls = (IF pc = "start" \/ Validate(endpoint, req).t # "continue"
                       THEN 0 ELSE polls + 1)
           /\ delays = polls + (IF pc = "awaitDelay" THEN 1 ELSE 0)
           /\ (fileId # None => (Done /\ calls = answered + 1))

\* C15: every job-runner invocation terminates, provided each outbound call
\* and each delay returns, after at most 1 + ceiling outbound calls (31 for
\* image, 61 for video): attempts stays within 0..ceiling, the polls never
\* exceed the ceiling, every delay is followed by its poll (as many delays as
\* polls once the delay has elapsed), and no call is made once a poll has
\* yielded the file id.
C15_JobRunnerTerminates ==
    /\ []JobRunnerBounded
    /\ [][fileId # None => calls' = calls]_vars
    /\ (endpoint \in JobEndpoints => <>Done)

\* C15 witness: the image job ends on its 31st outbound call, the 30th poll
\* yielding the file id
C15_Witness ==
    /\ endpoint = "image"
    /\ Done
    /\ calls = 31
    /\ polls = 30
    /\ delays = 30
    /\ attempts = 29
    /\ fileId # None

\* the helper's call is over and the relay's reply was a message text
ClientParsed == client.pc = "done" /\ client.answer.kind = "http" /\ client.answer.ok /\ client.answer.has

\* some part of the text is a JSON value
ContainsJSON(s) == \E i, j \in 1..Len(s) : i <= j /\ ParseJSONText(SubSeq(s, i, j)).ok

\* C16: generateStructuredJSON, for every relay reply that is a valid JSON
\* value wrapped in triple-backtick fences, with or without the json tag after
\* the opening fence, returns exactly the value that parsing the unfenced
\* JSON gives.
C16_FencedJsonRecovered ==
    (/\ ClientParsed
     /\ client.answer.pre \in OpenFences
     /\ client.answer.post \in CloseFences
     /\ ParseJSONText(client.answer.core).ok)
    => (/\ client.out.t = "return"
        /\ client.out.v = ParseJSONText(client.answer.core).out)

\* C17: generateStructuredJSON, for every relay reply that contains no JSON
\* at all, text with brace characters but no valid JSON object included,
\* fails with the 'Invalid JSON response' error and returns no value.
C17_NoJsonIsInvalidJsonResponse ==
    (ClientParsed /\ Message(client.answer) # << >> /\ ~ContainsJSON(Message(client.answer)))
    => (client.out.t = "throw" /\ client.out.err = "Invalid JSON response")

\* what an invocation has when it runs alone
Alone(done, taskId_, attempts_, fileId_, polls_, response_) ==
    [done |-> done, taskId |-> taskId_, attempts |-> attempts_, fileId |-> fileId_,
     polls |-> polls_, response |-> response_]

\* an answer that leaves the job pending
PendingAnswer == Http(200, StatusObj(None, Some("Processing"), None))

\* the poll loop run alone from attempts n and p polls on: `left` pending
\* answers, then the answer `last`
RECURSIVE Replay(_, _, _, _, _, _)
Replay(e, tid, n, p, left, last) ==
    LET o == Catch(e, PollStep(e, IF left > 0 THEN PendingAnswer ELSE last, n))
    IN  CASE o.t = "next" ->
               IF left > 0 /\ LoopCondition(e, o.attempts, None)
               THEN Replay(e, tid, o.attempts, p + 1, left - 1, last)
               ELSE IF LoopCondition(e, o.attempts, None)
               THEN Alone(FALSE, tid, o.attempts, None, p + 1, << >>)
               ELSE Alone(TRUE, tid, o.attempts, None, p + 1, << AfterLoop(e, None, tid) >>)
          [] o.t = "break" ->
               Alone(TRUE, tid, n, Some(o.fileId), p + 1,
                     << AfterLoop(e, Some(o.fileId), tid) >>)
          [] OTHER -> Alone(TRUE, tid, n, None, p + 1, << o.r >>)

\* the invocation run alone on request r, submit answer `first`, then k poll
\* answers of which the latest is `last` (earlier ones left the job pending)
RunAlone(e, r, first, k, last) ==
    LET v == Catch(e, Validate(e, r))
        o == Catch(e, SubmitAfterFetch(e, first))
    IN  IF v.t # "continue" THEN Alone(TRUE, None, 0, None, 0, << v.r >>)
        ELSE IF first = NoAnswer THEN Alone(FALSE, None, 0, None, 0, << >>)
        ELSE IF o.t # "continue" THEN Alone(TRUE, None, 0, None, 0, << o.r >>)
        ELSE IF k = 0 THEN Alone(FALSE, Some(o.x), 0, None, 0, << >>)
        ELSE Replay(e, Some(o.x), 0, 0, k - 1, last)

\* C20: for any interleaving of the steps (submit, delay, poll) of two
\* job-runner invocations, each invocation's attempt counter, file id,
\* number of polls and final response are those the invocation produces when
\* run alone on its own request and the provider's answers to its own calls,
\* and a step of one invocation changes nothing of the other.
C20_InvocationsIsolated ==
    /\ [](\A i \in Invocations :
            runs[i].pc # "start" =>
              LET a == RunAlone(runs[i].endpoint, runs[i].req, runs[i].first,
                                runs[i].answered, runs[i].last)
              IN  /\ (runs[i].pc = "done") = a.done
                  /\ runs[i].taskId = a.taskId
                  /\ runs[i].attempts = a.attempts
                  /\ runs[i].fileId = a.fileId
                  /\ runs[i].polls = a.polls + (IF runs[i].pc = "awaitPoll" THEN 1 ELSE 0)
                  /\ runs[i].response = a.response)
    /\ [][\E i \in Invocations : \A j \in Invocations \ {i} : runs'[j] = runs[j]]_vars

\* C20 witness: the two invocations have interleaved their polls and ended
\* differently, one with the file after three polls, one in the provider
\* error after two
C20_Witness ==
    /\ runs[1].pc = "done"
    /\ runs[2].pc = "done"
    /\ runs[1].endpoint = "image"
    /\ runs[2].endpoint = "video"
    /\ runs[1].answered = 3
    /\ runs[1].fileId = Some("f1")
    /\ runs[1].response[1].status = 200
    /\ runs[2].answered = 2
    /\ runs[2].attempts = 1
    /\ runs[2].response[1].body.error = "Error 1004"

\* the latest poll parsed to an object that carries a non-zero provider code
\* together with status 'Success' and a file id
ErrorWithSuccess ==
    /\ PollAnswered
    /\ ParsedEnvelope
    /\ TruthyNum(LastCode)
    /\ Prop(lastUp.body, "status") = Some("Success")
    /\ TruthyStr(Prop(lastUp.body, "file_id"))

\* C21: when one parsed poll response carries both a non-zero provider code
\* and status 'Success' with a file id, the provider error wins: the handler
\* returns the 500 'Error <code>' response, keeps no file id and never
\* answers 200 with that file id.
C21_ErrorBeatsSuccess ==
    ErrorWithSuccess
    => (/\ Done
        /\ fileId = None
        /\ Len(response) = 1
        /\ response[1].status = 500
        /\ response[1].body.error = "Error " \o ToString(LastCode[1])
        /\ DOMAIN response[1].body = {"error", "message"})

\* C21 witness: the third poll answers code 1008 with Success and file f1
C21_Witness ==
    /\ ErrorWithSuccess
    /\ answered = 3
    /\ LastCode = Some(1008)
    /\ Prop(lastUp.body, "file_id") = Some("f1")
    /\ response[1].body.error = "Error 1008"

\* a poll answer whose body parses to a value other than null, carries no
\* non-zero provider code, and is neither 'Success' with a non-empty file_id
\* nor 'Failed'
StillPending(up) ==
    /\ up.kind = "http"
    /\ up.body.json \in {"object", "scalar"}
    /\ ~TruthyNum(StatusCode(up.body))
    /\ ~(Prop(up.body, "status") = Some("Success")
         /\ Prop(up.body, "file_id") \notin {None, Some("")})
    /\ Prop(up.body, "status") # Some("Failed")

====
